---------------------------- MODULE Spec2Model ----------------------------
(***************************************************************************)
(* EchoMind AI (streamlit_app.py): the keyword scorer rule_analyze, the    *)
(* classifier-based scorer model_analyze, the handler of the "Analyze"     *)
(* form (validation, score selection, suggestion) and the results.csv log  *)
(* that the handler reads, extends and rewrites with pandas.               *)
(*                                                                         *)
(* Python floats are IEEE-754 binary64 values.  They are modelled here     *)
(* bit-exactly: a finite float is a sign, a natural-number significand of  *)
(* at most 53 bits and a binary exponent, and every product and sum is     *)
(* rounded to nearest, ties to even, as the hardware does.  Significands   *)
(* do not fit the model checker's integers, so naturals are little-endian  *)
(* sequences of 15-bit limbs.                                              *)
(***************************************************************************)
EXTENDS Integers, Sequences, FiniteSets, TLC

---------------------------------------------------------------------------
(* Natural numbers of any size: <<>> is 0, <<l1, l2, ...>> is              *)
(* l1 + Base*l2 + ..., the last limb non-zero.                             *)

LimbBits == 3 * 5
Base == 2 ^ LimbBits

RECURSIVE Pow2(_)
Pow2(n) == IF n = 0 THEN 1 ELSE 2 * Pow2(n - 1)

RECURSIVE Trim(_)
Trim(a) ==
  IF a = <<>> THEN a
  ELSE IF a[Len(a)] = 0 THEN Trim(SubSeq(a, 1, Len(a) - 1)) ELSE a

RECURSIVE NatOf(_)
NatOf(n) == IF n = 0 THEN <<>> ELSE <<n % Base>> \o NatOf(n \div Base)

RECURSIVE NatAddC(_, _, _)
NatAddC(a, b, c) ==
  IF a = <<>> /\ b = <<>> THEN (IF c = 0 THEN <<>> ELSE <<c>>)
  ELSE LET x == (IF a = <<>> THEN 0 ELSE Head(a))
                + (IF b = <<>> THEN 0 ELSE Head(b)) + c
       IN  <<x % Base>> \o NatAddC(IF a = <<>> THEN a ELSE Tail(a),
                                   IF b = <<>> THEN b ELSE Tail(b),
                                   x \div Base)

NatAdd(a, b) == NatAddC(a, b, 0)

\* a - b for a >= b
RECURSIVE NatSubB(_, _, _)
NatSubB(a, b, c) ==
  IF a = <<>> THEN <<>>
  ELSE LET x == Head(a) - (IF b = <<>> THEN 0 ELSE Head(b)) - c
       IN  <<IF x < 0 THEN x + Base ELSE x>>
           \o NatSubB(Tail(a), IF b = <<>> THEN b ELSE Tail(b),
                      IF x < 0 THEN 1 ELSE 0)

NatSub(a, b) == Trim(NatSubB(a, b, 0))

\* -1, 0, 1 as a < b, a = b, a > b
RECURSIVE NatCmpTop(_, _, _)
NatCmpTop(a, b, i) ==
  IF i = 0 THEN 0
  ELSE IF a[i] < b[i] THEN -1
  ELSE IF a[i] > b[i] THEN 1
  ELSE NatCmpTop(a, b, i - 1)

NatCmp(a, b) ==
  IF Len(a) < Len(b) THEN -1
  ELSE IF Len(a) > Len(b) THEN 1
  ELSE NatCmpTop(a, b, Len(a))

\* a * k + c for a limb-sized k
RECURSIVE NatMulSmallC(_, _, _)
NatMulSmallC(a, k, c) ==
  IF a = <<>> THEN (IF c = 0 THEN <<>> ELSE <<c>>)
  ELSE LET x == Head(a) * k + c
       IN  <<x % Base>> \o NatMulSmallC(Tail(a), k, x \div Base)

NatMulSmall(a, k) == Trim(NatMulSmallC(a, k, 0))

RECURSIVE NatMul(_, _)
NatMul(a, b) ==
  IF b = <<>> \/ a = <<>> THEN <<>>
  ELSE NatAdd(NatMulSmall(a, Head(b)),
              LET r == NatMul(a, Tail(b))
              IN  IF r = <<>> THEN r ELSE <<0>> \o r)

\* quotient and remainder of a by a limb-sized d, from the top limb down
RECURSIVE NatDivSmallR(_, _, _, _)
NatDivSmallR(a, d, i, r) ==
  IF i = 0 THEN [q |-> <<>>, r |-> r]
  ELSE LET x    == r * Base + a[i]
           rest == NatDivSmallR(a, d, i - 1, x % d)
       IN  [q |-> rest.q \o <<x \div d>>, r |-> rest.r]

NatDivSmall(a, d) ==
  LET res == NatDivSmallR(a, d, Len(a), 0)
  IN  [q |-> Trim(res.q), r |-> res.r]

RECURSIVE SmallBits(_)
SmallBits(n) == IF n = 0 THEN 0 ELSE 1 + SmallBits(n \div 2)

BitLen(a) ==
  IF a = <<>> THEN 0 ELSE LimbBits * (Len(a) - 1) + SmallBits(a[Len(a)])

ShiftL(a, n) ==
  IF a = <<>> THEN a
  ELSE [i \in 1..(n \div LimbBits) |-> 0] \o NatMulSmall(a, Pow2(n % LimbBits))

ShiftR(a, n) ==
  LET k == n \div LimbBits
  IN  IF k >= Len(a) THEN <<>>
      ELSE NatDivSmall(SubSeq(a, k + 1, Len(a)), Pow2(n % LimbBits)).q

IsOdd(a) == a # <<>> /\ a[1] % 2 = 1

---------------------------------------------------------------------------
(* Python float: a finite binary64 value (-1)^sgn * man * 2^exp with man   *)
(* below 2^53, or NonFinite (inf, -inf or nan).  The exponent range is not *)
(* modelled: the scores drawn below stay far from overflow and underflow.  *)

NonFinite == [fin |-> FALSE]

Finite(sgn, man, exp) == [fin |-> TRUE, sgn |-> sgn, man |-> man, exp |-> exp]

\* Operators take what they use several times as parameters: a value is
\* then computed once, where it is passed.

Normal(sgn, man, exp) ==
  IF BitLen(man) > 53 THEN Finite(sgn, ShiftR(man, 1), exp + 1)
  ELSE Finite(sgn, man, exp)

\* c compares the discarded bits with one half of the last kept bit
RoundQuot(sgn, q, exp, c) ==
  Normal(sgn, IF c > 0 \/ (c = 0 /\ IsOdd(q)) THEN NatAdd(q, <<1>>) ELSE q, exp)

RoundShift(sgn, man, exp, sh, q) ==
  RoundQuot(sgn, q, exp + sh,
            NatCmp(NatSub(man, ShiftL(q, sh)), ShiftL(<<1>>, sh - 1)))

RoundBits(sgn, man, exp, n) ==
  IF n <= 53 THEN Finite(IF n = 0 THEN 0 ELSE sgn, man, exp)
  ELSE RoundShift(sgn, man, exp, n - 53, ShiftR(man, n - 53))

\* round-to-nearest, ties-to-even, of (-1)^sgn * man * 2^exp to 53 bits
RoundNE(sgn, man, exp) == RoundBits(sgn, man, exp, BitLen(man))

\* n/d from the quotient and remainder of |n| * 2^75 by d: a sticky bit
\* below the quotient stands for a non-zero remainder
DecQuot(sgn, dv) ==
  RoundNE(sgn, NatAdd(ShiftL(dv.q, 1), IF dv.r = 0 THEN <<>> ELSE <<1>>), -76)

\* the float nearest to the decimal n/d (a float literal such as 0.9 = 9/10)
FloatOfDec(n, d) ==
  DecQuot(IF n < 0 THEN 1 ELSE 0,
          NatDivSmall(ShiftL(NatOf(IF n < 0 THEN -n ELSE n), 75), d))

\* x * y
FloatMul(x, y) ==
  IF ~x.fin \/ ~y.fin THEN NonFinite
  ELSE RoundNE((x.sgn + y.sgn) % 2, NatMul(x.man, y.man), x.exp + y.exp)

\* the sum of (-1)^sx * mx and (-1)^sy * my, times 2^e
AddAligned(sx, mx, sy, my, c, e) ==
  RoundNE(IF sx = sy \/ c >= 0 THEN sx ELSE sy,
          IF sx = sy THEN NatAdd(mx, my)
          ELSE IF c >= 0 THEN NatSub(mx, my) ELSE NatSub(my, mx),
          e)

AddAt(x, y, mx, my, e) == AddAligned(x.sgn, mx, y.sgn, my, NatCmp(mx, my), e)

AddExp(x, y, e) == AddAt(x, y, ShiftL(x.man, x.exp - e), ShiftL(y.man, y.exp - e), e)

\* x + y
FloatAdd(x, y) ==
  IF ~x.fin \/ ~y.fin THEN NonFinite
  ELSE AddExp(x, y, IF x.exp < y.exp THEN x.exp ELSE y.exp)

\* the value of a natural of at most two limbs
SmallOfNat(a) ==
  IF a = <<>> THEN 0 ELSE IF Len(a) = 1 THEN a[1] ELSE a[1] + Base * a[2]

\* int(x) for a finite x with |x| < 2^30: truncation towards zero
FloatToInt(x) ==
  (IF x.sgn = 1 THEN -1 ELSE 1)
  * SmallOfNat(IF x.exp >= 0 THEN ShiftL(x.man, x.exp) ELSE ShiftR(x.man, -x.exp))

---------------------------------------------------------------------------
(* Python str: a TLA+ string; a character is a string of length one.       *)

Min(a, b) == IF a < b THEN a ELSE b

UpperCase == "ABCDEFGHIJKLMNOPQRSTUVWXYZ"
LowerCase == "abcdefghijklmnopqrstuvwxyz"
Whitespace == {" ", "\t", "\n"}

CharAt(s, i) == SubSeq(s, i, i)

RECURSIVE IndexIn(_, _, _)
IndexIn(c, s, i) ==
  IF i > Len(s) THEN 0 ELSE IF CharAt(s, i) = c THEN i ELSE IndexIn(c, s, i + 1)

LowerChar(c) ==
  LET i == IndexIn(c, UpperCase, 1)
  IN  IF i = 0 THEN c ELSE CharAt(LowerCase, i)

\* str.lower()
RECURSIVE lower(_)
lower(s) ==
  IF s = "" THEN "" ELSE LowerChar(CharAt(s, 1)) \o lower(SubSeq(s, 2, Len(s)))

\* word in t
Contains(t, word) ==
  \E i \in 1..(Len(t) - Len(word) + 1) : SubSeq(t, i, i + Len(word) - 1) = word

RECURSIVE lstrip(_)
lstrip(s) ==
  IF s # "" /\ CharAt(s, 1) \in Whitespace THEN lstrip(SubSeq(s, 2, Len(s))) ELSE s

RECURSIVE rstrip(_)
rstrip(s) ==
  IF s # "" /\ CharAt(s, Len(s)) \in Whitespace
  THEN rstrip(SubSeq(s, 1, Len(s) - 1)) ELSE s

\* str.strip()
strip(s) == rstrip(lstrip(s))

---------------------------------------------------------------------------
(* The keyword scorer.                                                     *)

RULES ==
  [positive |-> <<"growth", "opportunity", "love", "learn", "improve",
                  "benefit", "success", "comfortable", "excited">>,
   negative |-> <<"stress", "pressure", "fear", "risk", "loss", "anxiety",
                  "difficult", "hard", "lonely">>,
   regret   |-> <<"miss", "chance", "what if", "maybe", "doubt", "later",
                  "regret", "should have">>]

\* sum(word in t for word in words)
RECURSIVE SumIn(_, _)
SumIn(words, t) ==
  IF words = <<>> THEN 0
  ELSE (IF Contains(t, Head(words)) THEN 1 ELSE 0) + SumIn(Tail(words), t)

\* rule_analyze without the lower-casing of the text
rule_analyze_cased(text) ==
  <<Min(SumIn(RULES.positive, text) * 20, 100),
    Min(SumIn(RULES.negative, text) * 20, 100),
    Min(SumIn(RULES.regret, text) * 20, 100)>>

rule_analyze(text) ==
  LET t      == lower(text)
      happy  == SumIn(RULES.positive, t) * 20
      stress == SumIn(RULES.negative, t) * 20
      regret == SumIn(RULES.regret, t) * 20
  IN  <<Min(happy, 100), Min(stress, 100), Min(regret, 100)>>

---------------------------------------------------------------------------
(* Bounds of the model.                                                    *)

\* most (label, score) items in one classifier output
MaxPairs == 2
\* most scorer calls in one run of the scorers on their own
MaxCalls == 2
\* most records in results.csv
MaxRows == 2

---------------------------------------------------------------------------
(* State.                                                                  *)

VARIABLES
  emotion_pipe,  \* the cached classifier handle, "None" when loading failed
  results_csv,   \* the lines of results.csv, each a list of fields; <<>>: no file
  shown,         \* the form's inputs and what the last run of the script displayed
  calls,         \* the scorer calls of the last run, in order
  history,       \* the rows of the accepted submissions, as they were built
  call,          \* the last direct call of a scorer: its input and outcome
  prev_failed    \* an earlier model_analyze call failed with a handle present

---------------------------------------------------------------------------
(* The model scorer.  A classifier call either raises or returns `out`, a  *)
(* list whose first element is a list of dicts.  An outcome of a Python    *)
(* call is a returned value or a raised exception; None is <<>>.           *)

None == <<>>

Return(v) == [raised |-> "", value |-> v]
Raise(e)  == [raised |-> e, value |-> None]

\* load_emotion_pipe(): the pipeline, or None when its construction raised
load_emotion_pipe == {"pipe", "None"}

\* a float the classifier returns: the binary64 nearest to c/100
PyFloat(c) == [t |-> "float", hundredths |-> c, v |-> FloatOfDec(c, 100)]
\* float('inf'), float('nan')
PyNonFinite == [t |-> "float", hundredths |-> 0, v |-> NonFinite]
\* a str that float() cannot parse
PyStr(x) == [t |-> "str", hundredths |-> 0, v |-> x]

Weight(tenths) == FloatOfDec(tenths, 10)

EMOTION_TO_SCORES ==
  [joy        |-> <<"happiness", Weight(10)>>,
   love       |-> <<"happiness", Weight(9)>>,
   optimism   |-> <<"happiness", Weight(8)>>,
   admiration |-> <<"happiness", Weight(6)>>,
   anger      |-> <<"stress", Weight(10)>>,
   fear       |-> <<"stress", Weight(9)>>,
   sadness    |-> <<"regret", Weight(9)>>,
   disgust    |-> <<"stress", Weight(7)>>,
   surprise   |-> <<"happiness", Weight(4)>>,
   neutral    |-> <<"happiness", Weight(2)>>]

\* the float literals 0.0, 0.1 and the 100 of `happy_val * 100`
FloatZero    == FloatOfDec(0, 1)
FloatTenth   == FloatOfDec(1, 10)
FloatHundred == FloatOfDec(100, 1)

\* happy_val += x, stress_val += x or regret_val += x
Accumulate(vals, kind, x) ==
  IF kind = "happiness" THEN [vals EXCEPT ![1] = FloatAdd(@, x)]
  ELSE IF kind = "stress" THEN [vals EXCEPT ![2] = FloatAdd(@, x)]
  ELSE IF kind = "regret" THEN [vals EXCEPT ![3] = FloatAdd(@, x)]
  ELSE vals

\* the for loop over scores; vals is <<happy_val, stress_val, regret_val>>
RECURSIVE ScoreLoop(_, _, _)
RECURSIVE ScoreItem(_, _, _, _, _)
ScoreLoop(scores, i, vals) ==
  IF i > Len(scores) THEN Return(vals)
  ELSE IF "label" \notin DOMAIN scores[i] THEN Raise("KeyError")
  ELSE IF "score" \notin DOMAIN scores[i] THEN Raise("KeyError")
  ELSE IF scores[i].score.t = "str" THEN Raise("ValueError")
  ELSE ScoreItem(scores, i, vals, lower(scores[i].label), scores[i].score.v)

ScoreItem(scores, i, vals, label, score) ==
  IF label \in DOMAIN EMOTION_TO_SCORES
  THEN ScoreLoop(scores, i + 1,
         Accumulate(vals, EMOTION_TO_SCORES[label][1],
                    FloatMul(score, EMOTION_TO_SCORES[label][2])))
  ELSE ScoreLoop(scores, i + 1,
         Accumulate(vals, "happiness", FloatMul(score, FloatTenth)))

\* int(x); int() raises on inf and nan
PyInt(x) == IF ~x.fin THEN Raise("OverflowError") ELSE Return(FloatToInt(x))

\* Percent rounding to the nearest integer instead of truncating
PercentRounded(val) ==
  PyInt(FloatAdd(FloatMul(val, FloatHundred), FloatOfDec(5, 10)))

\* min(int(val * 100), 100)
Percent(val) == PyInt(FloatMul(val, FloatHundred))

ClampAt100(p) == IF p.raised # "" THEN p ELSE Return(Min(p.value, 100))

\* return h, s, r
ReturnTriple(h, s, r) ==
  IF h.raised # "" THEN h
  ELSE IF s.raised # "" THEN s
  ELSE IF r.raised # "" THEN r
  ELSE Return(<<h.value, s.value, r.value>>)

\* the statements after the loop
Convert(loop) ==
  IF loop.raised # "" THEN loop
  ELSE ReturnTriple(ClampAt100(Percent(loop.value[1])),
                    ClampAt100(Percent(loop.value[2])),
                    ClampAt100(Percent(loop.value[3])))

\* the body of the try statement
TryBody(text, resp) ==
  IF resp.raises THEN Raise("RuntimeError")
  ELSE IF resp.out = <<>> THEN Raise("IndexError")
  ELSE Convert(ScoreLoop(resp.out[1], 1, <<FloatZero, FloatZero, FloatZero>>))

\* an except clause that catches KeyError alone
ExceptKeyError(outcome) ==
  IF outcome.raised = "KeyError" THEN Return(None) ELSE outcome

\* except Exception: return None
ExceptException(outcome) ==
  IF outcome.raised # "" THEN Return(None) ELSE outcome

model_analyze(text, resp) ==
  IF emotion_pipe = "None" THEN Return(None)
  ELSE ExceptException(TryBody(SubSeq(text, 1, Min(Len(text), 512)), resp))

---------------------------------------------------------------------------
(* Inputs of the scorers on their own: one call of either scorer on every  *)
(* input of the sets below, then further model_analyze calls on a few      *)
(* responses.                                                              *)

Fragments ==
  {"", "I feel anxious about the risk", "MISS the chance", " what if",
   " Maybe later, no doubt", " regret: should have", "glove", "Hard loss",
   " risk risk stress"}

RuleTexts == {a \o b \o c : a \in Fragments, b \in Fragments, c \in {"", " regret"}}

Labels == {"joy", "Sadness", "FEAR", "curiosity"}
Hundredths == {29, 80, -50}

Items ==
  {[label |-> l, score |-> PyFloat(c)] : l \in Labels, c \in Hundredths}
  \cup {[label |-> "joy", score |-> PyNonFinite],
        [label |-> "joy", score |-> PyStr("n/a")]}
  \cup {[label |-> "joy"], [score |-> PyFloat(80)]}

RECURSIVE SeqsUpTo(_, _)
SeqsUpTo(S, n) ==
  IF n = 0 THEN {<<>>}
  ELSE LET shorter == SeqsUpTo(S, n - 1)
       IN  shorter \cup {Append(q, x) : q \in shorter, x \in S}

ClassifierResponses ==
  {[raises |-> TRUE, out |-> <<>>], [raises |-> FALSE, out |-> <<>>]}
  \cup {[raises |-> FALSE, out |-> <<scores>>] : scores \in SeqsUpTo(Items, MaxPairs)}

RetryResponses ==
  {[raises |-> TRUE, out |-> <<>>],
   [raises |-> FALSE, out |-> << <<[label |-> "joy", score |-> PyFloat(80)],
                                   [label |-> "sadness", score |-> PyFloat(10)],
                                   [label |-> "neutral", score |-> PyFloat(0)]>> >>]}

NoResponse == [raises |-> FALSE, out |-> <<>>]

---------------------------------------------------------------------------
(* pandas.  A DataFrame is a list of rows of cells; a cell is a str, an    *)
(* int, a float or NaN.  Only the floats that read_csv can produce from    *)
(* the files of this model occur: whole numbers.  A file is a list of      *)
(* lines, each a list of field texts: the quoting of the CSV format loses  *)
(* nothing and is not modelled.                                            *)

StrCell(x) == [t |-> "str", s |-> x, i |-> 0]
IntCell(n) == [t |-> "int", s |-> "", i |-> n]
FloatCell(n) == [t |-> "float", s |-> "", i |-> n]
NaN == [t |-> "nan", s |-> "", i |-> 0]

Digits == "0123456789"

RECURSIVE NatToStr(_)
NatToStr(n) ==
  IF n < 10 THEN CharAt(Digits, n + 1)
  ELSE NatToStr(n \div 10) \o CharAt(Digits, (n % 10) + 1)

\* str(n)
IntToStr(n) == IF n < 0 THEN "-" \o NatToStr(-n) ELSE NatToStr(n)

IsDigits(s) == s # "" /\ \A i \in 1..Len(s) : IndexIn(CharAt(s, i), Digits, 1) > 0

RECURSIVE NatOfStr(_, _)
NatOfStr(s, acc) ==
  IF s = "" THEN acc
  ELSE NatOfStr(SubSeq(s, 2, Len(s)), 10 * acc + IndexIn(CharAt(s, 1), Digits, 1) - 1)

IsIntText(s) ==
  IF s # "" /\ CharAt(s, 1) = "-" THEN IsDigits(SubSeq(s, 2, Len(s))) ELSE IsDigits(s)

IntOfText(s) ==
  IF CharAt(s, 1) = "-" THEN -NatOfStr(SubSeq(s, 2, Len(s)), 0) ELSE NatOfStr(s, 0)

\* a whole number written as a float, as to_csv writes one
IsFloatText(s) ==
  Len(s) > 2 /\ SubSeq(s, Len(s) - 1, Len(s)) = ".0" /\ IsIntText(SubSeq(s, 1, Len(s) - 2))

WholeOfText(s) ==
  IF IsIntText(s) THEN IntOfText(s) ELSE IntOfText(SubSeq(s, 1, Len(s) - 2))

\* read_csv's default na_values (those every pandas version has)
NaValues == {"", "#N/A", "N/A", "NA", "NULL", "NaN", "n/a", "nan", "null"}

\* the dtype read_csv infers for a column from its field texts
ColumnKind(texts) ==
  IF \A i \in 1..Len(texts) : IsIntText(texts[i]) THEN "int64"
  ELSE IF \A i \in 1..Len(texts) :
            texts[i] \in NaValues \/ IsIntText(texts[i]) \/ IsFloatText(texts[i])
       THEN "float64"
  ELSE "object"

ReadCell(kind, text) ==
  IF text \in NaValues THEN NaN
  ELSE IF kind = "int64" THEN IntCell(IntOfText(text))
  ELSE IF kind = "float64" THEN FloatCell(WholeOfText(text))
  ELSE StrCell(text)

Header ==
  <<"timestamp", "decision", "optionA", "A_happiness", "A_stress", "A_regret",
    "optionB", "B_happiness", "B_stress", "B_regret">>

\* the cells of the records, given each column's dtype
ReadRows(file, kinds) ==
  [r \in 1..(Len(file) - 1) |->
     [j \in 1..Len(Header) |-> ReadCell(kinds[j], file[r + 1][j])]]

\* pd.read_csv("results.csv") of an existing file: the first line names the
\* columns, the others are the records
read_csv(file) ==
  ReadRows(file,
           [j \in 1..Len(Header) |->
              ColumnKind([r \in 1..(Len(file) - 1) |-> file[r + 1][j]])])

WriteCell(cell) ==
  IF cell.t = "str" THEN cell.s
  ELSE IF cell.t = "int" THEN IntToStr(cell.i)
  ELSE IF cell.t = "float" THEN IntToStr(cell.i) \o ".0"
  ELSE ""

\* df.to_csv("results.csv", index=False)
to_csv(df) ==
  <<Header>> \o [r \in 1..Len(df) |-> [j \in 1..Len(Header) |-> WriteCell(df[r][j])]]

---------------------------------------------------------------------------
(* The handler of the form: the script's `if submitted:` block.            *)

\* datetime.utcnow().isoformat() of the n-th accepted submission
IsoFormat(n) == "2026-11-05T04:00:0" \o IntToStr(n) \o ".000123"

Row(timestamp, decision, optionA, a_scores, optionB, b_scores) ==
  <<StrCell(timestamp), StrCell(decision), StrCell(optionA),
    IntCell(a_scores[1]), IntCell(a_scores[2]), IntCell(a_scores[3]),
    StrCell(optionB), IntCell(b_scores[1]), IntCell(b_scores[2]), IntCell(b_scores[3])>>

\* the try statement that saves the row
Save(file, row) ==
  IF file = <<>> THEN to_csv(<<row>>)
  ELSE to_csv(Append(read_csv(file), row))

\* a suggestion that breaks a tie of the regrets by the stress
SuggestionByStress(a_scores, b_scores) ==
  IF a_scores[3] < b_scores[3] THEN "A"
  ELSE IF b_scores[3] < a_scores[3] THEN "B"
  ELSE IF a_scores[2] < b_scores[2] THEN "A"
  ELSE IF b_scores[2] < a_scores[2] THEN "B"
  ELSE "similar"

Suggestion(a_scores, b_scores) ==
  IF a_scores[3] < b_scores[3] THEN "A"
  ELSE IF b_scores[3] < a_scores[3] THEN "B"
  ELSE "similar"

NoScores == <<>>

Shown(decision, optionA, optionB, status, a_scores, b_scores, a_tag, b_tag, suggestion) ==
  [decision |-> decision, optionA |-> optionA, optionB |-> optionB,
   status |-> status, a_scores |-> a_scores, b_scores |-> b_scores,
   a_tag |-> a_tag, b_tag |-> b_tag, suggestion |-> suggestion]

Called(fn, option, text, outcome) ==
  <<[fn |-> fn, option |-> option, text |-> text, outcome |-> outcome]>>

\* st.error("Please enter the decision and at least one option.")
Reject(decision, optionA, optionB) ==
  /\ shown' = Shown(decision, optionA, optionB, "error", NoScores, NoScores, "", "", "")
  /\ calls' = <<>>
  /\ UNCHANGED <<results_csv, history>>

\* an exception that leaves model_analyze ends the run of the script
Crash(decision, optionA, optionB, a_model, b_model) ==
  /\ shown' = Shown(decision, optionA, optionB, "exception", NoScores, NoScores, "", "", "")
  /\ calls' = (IF strip(optionA) # "" THEN Called("model_analyze", "A", optionA, a_model)
               ELSE <<>>)
              \o (IF strip(optionB) # "" /\ a_model.raised = ""
                  THEN Called("model_analyze", "B", optionB, b_model) ELSE <<>>)
  /\ UNCHANGED <<results_csv, history>>

\* lines 129-191: the metrics, the suggestion and the saved row
Present(decision, optionA, optionB, a_model, b_model, a_scores, b_scores) ==
  /\ shown' = Shown(decision, optionA, optionB, "ok", a_scores, b_scores,
                    IF a_model.value = None THEN "rules" ELSE "model",
                    IF b_model.value = None THEN "rules" ELSE "model",
                    Suggestion(a_scores, b_scores))
  /\ calls' = (IF strip(optionA) # "" THEN Called("model_analyze", "A", optionA, a_model)
               ELSE <<>>)
              \o (IF strip(optionB) # "" THEN Called("model_analyze", "B", optionB, b_model)
                  ELSE <<>>)
              \o (IF a_model.value = None
                  THEN Called("rule_analyze", "A", optionA, Return(a_scores)) ELSE <<>>)
              \o (IF b_model.value = None
                  THEN Called("rule_analyze", "B", optionB, Return(b_scores)) ELSE <<>>)
  /\ results_csv' = Save(results_csv,
                         Row(IsoFormat(Len(history) + 1), decision, optionA, a_scores,
                             optionB, b_scores))
  /\ history' = Append(history, Row(IsoFormat(Len(history) + 1), decision, optionA,
                                    a_scores, optionB, b_scores))

\* a fallback that drops both model results when either call returned None
SelectTogether(decision, optionA, optionB, a_model, b_model) ==
  IF a_model.raised # "" \/ b_model.raised # ""
  THEN Crash(decision, optionA, optionB, a_model, b_model)
  ELSE Present(decision, optionA, optionB, a_model, b_model,
               IF a_model.value = None \/ b_model.value = None
               THEN rule_analyze(optionA) ELSE a_model.value,
               IF a_model.value = None \/ b_model.value = None
               THEN rule_analyze(optionB) ELSE b_model.value)

\* lines 117-127: the fallback to the keyword rules
Select(decision, optionA, optionB, a_model, b_model) ==
  IF a_model.raised # "" \/ b_model.raised # ""
  THEN Crash(decision, optionA, optionB, a_model, b_model)
  ELSE Present(decision, optionA, optionB, a_model, b_model,
               IF a_model.value = None THEN rule_analyze(optionA) ELSE a_model.value,
               IF b_model.value = None THEN rule_analyze(optionB) ELSE b_model.value)

\* a validation that tests the texts without strip()
HandlerUnstripped(decision, optionA, optionB, respA, respB) ==
  IF decision = "" \/ (optionA = "" /\ optionB = "")
  THEN Reject(decision, optionA, optionB)
  ELSE Select(decision, optionA, optionB,
              IF strip(optionA) # "" THEN model_analyze(optionA, respA) ELSE Return(None),
              IF strip(optionB) # "" THEN model_analyze(optionB, respB) ELSE Return(None))

\* lines 106-115: the validation and the model scorer
Handler(decision, optionA, optionB, respA, respB) ==
  IF strip(decision) = "" \/ (strip(optionA) = "" /\ strip(optionB) = "")
  THEN Reject(decision, optionA, optionB)
  ELSE Select(decision, optionA, optionB,
              IF strip(optionA) # "" THEN model_analyze(optionA, respA) ELSE Return(None),
              IF strip(optionB) # "" THEN model_analyze(optionB, respB) ELSE Return(None))

---------------------------------------------------------------------------
(* The application: the first submission draws from every input below,     *)
(* the later ones from a few, until the log holds MaxRows records.         *)

Decisions == {"Should I move?", "007", " \t"}
Options   == {"", " \n", "NA", "I might MISS this later; the risk", "love"}

Output(scores) == [raises |-> FALSE, out |-> <<scores>>]

Responses ==
  {[raises |-> TRUE, out |-> <<>>],
   Output(<<[label |-> "joy", score |-> PyFloat(80)],
            [label |-> "sadness", score |-> PyFloat(10)]>>),
   Output(<<[label |-> "sadness", score |-> PyFloat(-50)],
            [label |-> "fear", score |-> PyFloat(29)]>>),
   Output(<<[label |-> "fear", score |-> PyFloat(29)],
            [label |-> "Sadness", score |-> PyFloat(10)],
            [label |-> "curiosity", score |-> PyFloat(80)]>>)}

\* <<decision, optionA, optionB>> of the later submissions; the classifier
\* call of a later submission raises
LaterForms ==
  {<<"Stay?", "what if", "12">>, <<"12", "", "regret it LATER">>, <<"", "what if", "">>}
LaterResponse == [raises |-> TRUE, out |-> <<>>]

NoCall == [fn |-> "", text |-> "", resp |-> NoResponse, outcome |-> Return(None), n |-> 0]

Init ==
  /\ emotion_pipe \in load_emotion_pipe
  /\ results_csv = <<>>
  /\ shown = Shown("", "", "", "", NoScores, NoScores, "", "", "")
  /\ calls = <<>>
  /\ history = <<>>
  /\ call = NoCall
  /\ prev_failed = FALSE

Submit(decision, optionA, optionB, respA, respB) ==
  /\ shown.status = ""
  /\ Handler(decision, optionA, optionB, respA, respB)
  /\ UNCHANGED <<emotion_pipe, call, prev_failed>>

SubmitAgain(decision, optionA, optionB, respA, respB) ==
  /\ shown.status # ""
  /\ Len(history) < MaxRows
  /\ Handler(decision, optionA, optionB, respA, respB)
  /\ UNCHANGED <<emotion_pipe, call, prev_failed>>

Next ==
  \/ \E decision \in Decisions, optionA \in Options, optionB \in Options,
        respA \in Responses, respB \in Responses :
       Submit(decision, optionA, optionB, respA, respB)
  \/ \E form \in LaterForms :
       SubmitAgain(form[1], form[2], form[3], LaterResponse, LaterResponse)

vars == <<emotion_pipe, results_csv, shown, calls, history, call, prev_failed>>

Spec == Init /\ [][Next]_vars

---------------------------------------------------------------------------
(* The scorers on their own.                                               *)

InitScore == Init

RuleAnalyze(text) ==
  /\ call.n = 0
  /\ call' = [fn |-> "rule_analyze", text |-> text, resp |-> NoResponse,
              outcome |-> Return(rule_analyze(text)), n |-> 1]
  /\ UNCHANGED <<emotion_pipe, prev_failed, results_csv, shown, calls, history>>

CallModel(text, resp) ==
  /\ call' = [fn |-> "model_analyze", text |-> text, resp |-> resp,
              outcome |-> model_analyze(text, resp), n |-> call.n + 1]
  /\ prev_failed' = (prev_failed \/ (call.fn = "model_analyze" /\ emotion_pipe # "None"
                                       /\ call.outcome.value = None))
  /\ UNCHANGED <<emotion_pipe, results_csv, shown, calls, history>>

ModelAnalyze(text, resp) ==
  /\ call.n = 0
  /\ CallModel(text, resp)

ModelAnalyzeAgain(text, resp) ==
  /\ call.n > 0 /\ call.n < MaxCalls
  /\ call.fn = "model_analyze"
  /\ CallModel(text, resp)

NextScore ==
  \/ \E text \in RuleTexts : RuleAnalyze(text)
  \/ \E resp \in ClassifierResponses : ModelAnalyze("Move to Bangalore", resp)
  \/ \E resp \in RetryResponses : ModelAnalyzeAgain("Stay here", resp)

SpecScore == InitScore /\ [][NextScore]_vars

---------------------------------------------------------------------------
(* Properties.                                                             *)

IsBlank(s) == \A i \in 1..Len(s) : CharAt(s, i) \in Whitespace

Returned(fn) == call.fn = fn /\ call.outcome.raised = "" /\ call.outcome.value # None

\* C1: every component of every triple that rule_analyze or model_analyze
\* returns is an integer in [0,100], whatever the classifier's scores are.
C1_ComponentsInRange ==
  (Returned("rule_analyze") \/ Returned("model_analyze"))
    => \A k \in 1..3 : call.outcome.value[k] \in 0..100

\* the calls of scorer fn for an option in the last run
CallsOf(fn, option) ==
  {i \in 1..Len(calls) : calls[i].fn = fn /\ calls[i].option = option}

\* what the last run did with one option, given its text, scores and tag
SelectedFor(option, text, scores, tag) ==
  ~IsBlank(text) =>
    /\ Cardinality(CallsOf("model_analyze", option)) = 1
    /\ \A i \in CallsOf("model_analyze", option) :
         /\ calls[i].text = text
         /\ calls[i].outcome.value # None
              => scores = calls[i].outcome.value /\ tag = "model"
         /\ calls[i].outcome.value = None
              => scores = rule_analyze(text) /\ tag = "rules"
    /\ emotion_pipe = "None" => scores = rule_analyze(text) /\ tag = "rules"

\* C2: in an accepted submission each non-blank option, on its own, shows the
\* model's triple tagged model-based when model_analyze returned one, and
\* rule_analyze of its text tagged rule-based when model_analyze returned
\* None; without a classifier handle every non-blank option is rule-based.
C2_SelectionPerOption ==
  shown.status = "ok" =>
    /\ SelectedFor("A", shown.optionA, shown.a_scores, shown.a_tag)
    /\ SelectedFor("B", shown.optionB, shown.b_scores, shown.b_tag)

C2_Witness ==
  /\ shown.status = "ok"
  /\ ~IsBlank(shown.optionA) /\ ~IsBlank(shown.optionB)
  /\ shown.a_tag = "model" /\ shown.b_tag = "rules"
  /\ shown.b_scores = rule_analyze(shown.optionB)
  /\ shown.b_scores # <<0, 0, 0>>

\* a classifier response model_analyze cannot use: the call raised, the list
\* is empty, an item lacks a key or holds a score that is no number
Malformed(resp) ==
  \/ resp.raises
  \/ resp.out = <<>>
  \/ \E i \in 1..Len(resp.out[1]) :
       \/ "label" \notin DOMAIN resp.out[1][i]
       \/ "score" \notin DOMAIN resp.out[1][i]
       \/ resp.out[1][i].score.t = "str"

\* C3: model_analyze never raises: it returns None without a handle and on a
\* failed or malformed classifier call; no call changes the handle, so a
\* call after a failed one can return a triple.
C3_NeverRaises ==
  /\ [](call.fn = "model_analyze" =>
          /\ call.outcome.raised = ""
          /\ emotion_pipe = "None" => call.outcome.value = None
          /\ Malformed(call.resp) => call.outcome.value = None)
  /\ [][emotion_pipe' = emotion_pipe]_vars

C3_Witness ==
  /\ prev_failed
  /\ Returned("model_analyze")
  /\ ~Malformed(call.resp)

\* the number of distinct substrings of a category's list in the lower-cased text
Hits(category, text) ==
  Cardinality({w \in {RULES[category][i] : i \in 1..Len(RULES[category])} :
                 Contains(lower(text), w)})

\* C4: each component of rule_analyze(text) is min(20 * n, 100), n the number
\* of the category's substrings the lower-cased text contains; it is one of
\* 0, 20, ..., 100; the empty text gives (0,0,0) and 'I feel anxious about
\* the risk' gives (0,20,0).
C4_RuleFormula ==
  call.fn = "rule_analyze" =>
    /\ call.outcome.value = <<Min(20 * Hits("positive", call.text), 100),
                              Min(20 * Hits("negative", call.text), 100),
                              Min(20 * Hits("regret", call.text), 100)>>
    /\ \A k \in 1..3 : call.outcome.value[k] \in {0, 20, 40, 60, 80, 100}
    /\ call.text = "" => call.outcome.value = <<0, 0, 0>>
    /\ call.text = "I feel anxious about the risk" => call.outcome.value = <<0, 20, 0>>

C4_Witness ==
  /\ call.fn = "rule_analyze"
  /\ Hits("regret", call.text) > 5
  /\ call.text # lower(call.text)
  /\ call.outcome.value = <<0, 0, 100>>

\* the metric and the weight of a label: the table's, or happiness and 0.1
MetricOf(label) ==
  IF lower(label) \in DOMAIN EMOTION_TO_SCORES
  THEN EMOTION_TO_SCORES[lower(label)][1] ELSE "happiness"

WeightOf(label) ==
  IF lower(label) \in DOMAIN EMOTION_TO_SCORES
  THEN EMOTION_TO_SCORES[lower(label)][2] ELSE FloatTenth

\* T: the sum, over the first n pairs in the order returned, of p * weight
\* for the pairs of the metric, in the floating-point arithmetic of the code
RECURSIVE Total(_, _, _)
Total(scores, metric, n) ==
  IF n = 0 THEN FloatZero
  ELSE IF MetricOf(scores[n].label) = metric
  THEN FloatAdd(Total(scores, metric, n - 1),
                FloatMul(scores[n].score.v, WeightOf(scores[n].label)))
  ELSE Total(scores, metric, n - 1)

TruncatedPercent(scores, metric) ==
  Min(FloatToInt(FloatMul(Total(scores, metric, Len(scores)), FloatHundred)), 100)

Example ==
  <<[label |-> "joy", score |-> PyFloat(80)],
    [label |-> "sadness", score |-> PyFloat(10)],
    [label |-> "neutral", score |-> PyFloat(0)]>>

C6_SuggestionByRegret ==
  shown.status = "ok" =>
    /\ shown.suggestion = "A" <=> shown.a_scores[3] < shown.b_scores[3]
    /\ shown.suggestion = "B" <=> shown.b_scores[3] < shown.a_scores[3]
    /\ shown.suggestion = "similar" <=> shown.a_scores[3] = shown.b_scores[3]

C6_Witness ==
  /\ shown.status = "ok"
  /\ shown.suggestion = "A"
  /\ shown.a_scores[2] > shown.b_scores[2]
  /\ shown.a_scores[1] # shown.b_scores[1]
  /\ shown.a_scores[3] >= 0

\* C7: a submission with a blank decision, or with two blank options, shows
\* the error: no scorer is called, no suggestion is shown, and results.csv
\* is neither changed nor created.
C7_RejectedNoEffect ==
  [][(IsBlank(shown'.decision) \/ (IsBlank(shown'.optionA) /\ IsBlank(shown'.optionB)))
       => /\ shown'.status = "error"
          /\ calls' = <<>>
          /\ shown'.suggestion = ""
          /\ shown'.a_scores = NoScores /\ shown'.b_scores = NoScores
          /\ results_csv' = results_csv]_<<shown, calls, results_csv>>

C7_Witness ==
  /\ shown.status = "error"
  /\ shown.decision # "" /\ IsBlank(shown.decision)
  /\ ~IsBlank(shown.optionA)
  /\ calls = <<>>
  /\ results_csv = <<>>

\* the line of a row as its first write puts it in the file
LineOf(row) == [j \in 1..Len(Header) |-> WriteCell(row[j])]

\* C8: the log is the header followed by one record per accepted submission
\* in submission order, every record as it was first written: a later write
\* adds one record at the end and changes no earlier line.
C8_LogAppendOnly ==
  /\ results_csv = <<>> <=> history = <<>>
  /\ results_csv # <<>> =>
       results_csv = <<Header>> \o [k \in 1..Len(history) |-> LineOf(history[k])]

\* C9: every record of the log, read back, gives the six scores and the
\* decision and option texts of its submission, whatever the texts are.
C9_RoundTrip ==
  results_csv # <<>> =>
    /\ Len(read_csv(results_csv)) = Len(history)
    /\ \A k \in 1..Len(history) :
         \A j \in 2..Len(Header) : read_csv(results_csv)[k][j] = history[k][j]

\* the claim of C10 for a blank option and the other, non-blank one
BlankOption(option, text, scores, tag, other, otherRegret) ==
  /\ CallsOf("model_analyze", option) = {}
  /\ \E i \in CallsOf("rule_analyze", option) : calls[i].text = text
  /\ scores = <<0, 0, 0>>
  /\ tag = "rules"
  /\ shown.suggestion # other
  /\ otherRegret > 0 => shown.suggestion = option
  /\ otherRegret = 0 => shown.suggestion = "similar"

\* C10: when exactly one option of an accepted submission is blank, the
\* model scorer is not called for it, rule_analyze scores it (0,0,0), tagged
\* rule-based, and the suggestion is never the other option: it is the blank
\* option when the other's regret is above 0 and a tie when it is 0.
C10_BlankOption ==
  shown.status = "ok" =>
    /\ (IsBlank(shown.optionA) /\ ~IsBlank(shown.optionB))
         => BlankOption("A", shown.optionA, shown.a_scores, shown.a_tag,
                        "B", shown.b_scores[3])
    /\ (IsBlank(shown.optionB) /\ ~IsBlank(shown.optionA))
         => BlankOption("B", shown.optionB, shown.b_scores, shown.b_tag,
                        "A", shown.a_scores[3])

=============================================================================
